---------------------------- MODULE Spec2Model ----------------------------
(***************************************************************************)
(* The WebWormhole signalling handshake: two peers (the initiator "A",    *)
(* who calls New, and the joiner "B", who calls Join) talk through a      *)
(* rendezvous server that forwards text frames and close codes.  Each     *)
(* peer runs either the Go implementation (src/wormhole/dial_js.go) or    *)
(* the browser implementation (src/web/ww.js).                            *)
(***************************************************************************)
EXTENDS Naturals, Sequences, FiniteSets, TLC

VARIABLES
    impl,      \* impl[p]: "go" or "js", the implementation peer p runs
    pass,      \* pass[p]: the passphrase peer p was given
    pc,        \* pc[p]: position of the handshake task (Go) / this.state (JS)
    key,       \* key[p]: Wormhole.key / this.key, NoKey until derived
    ws,        \* ws[p]: the peer's view of its rendezvous socket
    wsCode,    \* wsCode[p]: status the peer itself closed its socket with (0: none)
    net,       \* net[p]: frames (and a final close) on their way to p, in order
    sent,      \* sent[p]: what p has written to the socket in its current run of the
               \* handshake, in order: <<type, had key>>
    ret,       \* ret[p]: what the call returned / the promise was rejected with
    nfail,     \* nfail[p]: number of fail() calls of the JS peer (capped)
    rc,        \* rc[p]: handleRemoteCandidates goroutine: "off", "run", "done"
    lc,        \* lc[p]: TRUE once the localCandidate channel is closed
    cb,        \* cb[p]: TRUE once the candidate callback is registered on the pc
    gath,      \* gath[p]: ICE gatherer of p's pc: "idle", "run"
    ncand,     \* ncand[p]: local candidates the gatherer has reported so far
    nnil,      \* nnil[p]: completion (nil candidate) reports so far
    pconn,     \* pconn[p]: the peer connection: "none", "open", "closed"
    rdesc,     \* rdesc[p]: type of the remote description applied to the pc ("" if none)
    added,     \* added[p]: what was handed to the pc's AddICECandidate, in order: <<type, n>>
    p2,        \* p2[p]: JS promise2 resolved (finish() was called)
    cont,      \* cont[p]: JS continuation registered on promise2 and its position
    pend,      \* pend[p]: JS addIceCandidate calls waiting for promise2 or for the
               \* remote description (the pc runs its operations one after another)
    openFail,  \* openFail[p]: phase in which an open of a sealed frame failed at p ("" if none)
    opened,    \* opened[p]: TRUE once p handed a received frame to open (secretbox)
    slot,      \* the server's slot: "none", "awaiting", "paired", "closed"
    srvClosed, \* srvClosed[p]: close code the server itself sent to p (0: none)
    tampered,  \* number of frames the server has altered in flight
    injected,  \* number of frames of its own the server has delivered
    gotEnd,    \* gotEnd[p]: p opened a frame holding the empty candidate
    closedWith,\* closedWith[p]: code of the close p has received (0: none)
    side,      \* side[p]: Wormhole.side
    ndial,     \* ndial[p]: calls of Dial on p's Wormhole so far
    iceState,  \* iceState[p]: pc.iceConnectionState of the browser peer
    onOpen,    \* onOpen[p]: the OnOpen callback of DialDataChannel: "idle", "sending", "done"
    inDefault, \* inDefault[p]: nil callbacks of p inside the default branch of the select
    forged,    \* PAKE messages of the server's own making delivered so far
    binUsed,   \* binUsed[p]: p has read a binary frame and used its content
    closing,   \* where DataChannel.Close is: "off", "idle", "wait", "defer", "done"
    attempts,  \* the closers Close has called, in the order of the calls
    failed,    \* the closers whose Close returned an error
    cerr,      \* the named result err of DataChannel.Close
    buffered,  \* dc.BufferedAmount() of a DataChannel, in bytes
    wpc,       \* wpc[w]: position of writer w in DataChannel.Write
    nwrites,   \* nwrites[w]: calls of Write that w has finished
    seen,      \* seen[w]: the buffered amount w observed in its last loop test
    flushL,    \* flushc.L: 0 when free, else the writer that holds it
    lowPending, \* calls of the OnBufferedAmountLow callback that are due
    connType   \* connType[p]: candidate type of the selected pair ("" before it is there)

vars == <<impl, pass, pc, key, ws, wsCode, net, sent, ret, nfail, rc, lc, cb, gath,
          ncand, nnil, pconn, rdesc, added, p2, cont, pend, openFail, opened,
          slot, srvClosed, tampered, injected, closedWith, gotEnd, side, ndial,
          iceState, connType, onOpen, inDefault, forged, binUsed, buffered, wpc, nwrites, seen,
          flushL, lowPending, closing, attempts, failed, cerr>>

\* The state of a DataChannel and of the calls of its Write.
closeVars == <<closing, attempts, failed, cerr>>
dcVars == <<buffered, wpc, nwrites, seen, flushL, lowPending, closeVars>>

\* The state of the handshake.
hsVars == <<impl, pass, pc, key, ws, wsCode, net, sent, ret, nfail, rc, lc, cb, gath,
            ncand, nnil, pconn, rdesc, added, p2, cont, pend, openFail, opened,
            slot, srvClosed, tampered, injected, closedWith, gotEnd, side, ndial,
            iceState, connType, onOpen, inDefault, forged, binUsed>>

\* What a server that does not keep to text frames of the peers has done.
hostVars == <<forged, binUsed>>

(***************************************************************************)
(* Bounds of the model.                                                    *)
(***************************************************************************)
MaxCand == 1
MaxNil == 1
MaxTamper == 1
MaxFail == 2
MaxDial == 2
MaxForge == 1
MaxRace == 2
NWriters == 2
MaxWrites == 1

(***************************************************************************)
(* Program constants.                                                      *)
(***************************************************************************)
CloseNoSuchSlot == 4000
CloseSlotTimedOut == 4001
CloseNoMoreSlots == 4002
CloseWrongProto == 4003
ClosePeerHungUp == 4004
CloseBadKey == 4005
StatusNormalClosure == 1000
CloseWebRTCSuccess == 4006
CloseWebRTCSuccessDirect == 4007
CloseWebRTCSuccessRelay == 4008
CloseWebRTCFailed == 4009
BufferedAmountLowThreshold == 524288

\* The goroutines that call Write on one DataChannel.
Writers == 1..NWriters

P == {"A", "B"}
Other(p) == IF p = "A" THEN "B" ELSE "A"
Passphrases == {1, 2}
NoKey == <<>>

ProtocolCodes == {CloseNoSuchSlot, CloseSlotTimedOut, CloseNoMoreSlots,
                  CloseWrongProto, ClosePeerHungUp, CloseBadKey}

\* Results of a call.
None == <<"none", 0>>
Nil == <<"nil", 0>>
ErrBadVersion == <<"ErrBadVersion", 0>>
ErrBadKey == <<"ErrBadKey", 0>>
ErrNoSuchSlot == <<"ErrNoSuchSlot", 0>>
ErrTimedOut == <<"ErrTimedOut", 0>>
ErrOther == <<"error", 0>>
CloseError(code) == <<"CloseError", code>>

\* websocket.CloseStatus(err): the close code of a CloseError, -1 (here 0) otherwise.
CloseStatus(err) == IF err[1] = "CloseError" THEN err[2] ELSE 0

unwrapWebsocketErr_swapped(err) ==
    CASE CloseStatus(err) = CloseWrongProto -> ErrBadVersion
      [] CloseStatus(err) = CloseNoSuchSlot -> ErrTimedOut
      [] CloseStatus(err) = CloseSlotTimedOut -> ErrNoSuchSlot
      [] OTHER -> err

unwrapWebsocketErr(err) ==
    CASE CloseStatus(err) = CloseWrongProto -> ErrBadVersion
      [] CloseStatus(err) = CloseNoSuchSlot -> ErrNoSuchSlot
      [] CloseStatus(err) = CloseSlotTimedOut -> ErrTimedOut
      [] OTHER -> err

(***************************************************************************)
(* Frames.  t is what the bytes are, k the key a sealed frame was sealed   *)
(* under, ok is FALSE once the frame was altered in flight, c the code of  *)
(* a close, n the number of the candidate in a candidate frame, short is   *)
(* TRUE when the frame decodes to fewer bytes than a nonce, bin when it is  *)
(* delivered as a binary message.                                          *)
(***************************************************************************)
Frame(t, k) ==
    [t |-> t, k |-> k, ok |-> TRUE, c |-> 0, n |-> 0, short |-> FALSE, bin |-> FALSE]
CloseFrame(code) == [Frame("close", NoKey) EXCEPT !.c = code]

\* The msgA of the joiner's n-th run of cpace.Start.
PakeAFrame(n) == [Frame("pakeA", NoKey) EXCEPT !.n = n]

\* The msgA a PAKE frame is to its reader, and the msgA of the joiner's own run.
SawA_none(f) == 0

SawA(f) == IF f.ok THEN f.n ELSE 0
OwnA(p) == IF impl[p] = "go" THEN ndial[p] ELSE 1

\* The frame of the n-th local candidate.
CandFrame(k, n) == [Frame("cand", k) EXCEPT !.n = n]
SealedTypes == {"offer", "answer", "cand", "end", "bye"}
PakeTypes == {"pakeA", "pakeB"}

\* base64.URLEncoding.DecodeString succeeds on every frame a peer wrote, altered
\* or not; the frames of the server's own making are no base64url text.
IsBase64(f) == f.t # "junk"

\* secretbox.Open / webwormhole.open: succeeds only on an unaltered frame sealed
\* under the same key.
OpenOK_any(k, f) == f.t \in SealedTypes

OpenOK(k, f) == f.t \in SealedTypes /\ f.ok /\ f.k = k /\ k # NoKey

\* The session key: HKDF of the PAKE master key.  Both sides derive the same key
\* iff they used the same passphrase and saw the same two PAKE messages.
\* sawA is the number of the joiner's PAKE run whose msgA went into the key (0
\* when the bytes were not the joiner's), sawB tells whether msgB was the
\* initiator's.
DeriveKey_none(pw, sawA, sawB) == NoKey

DeriveKey(pw, sawA, sawB) == <<pw, sawA, sawB>>

(***************************************************************************)
(* The socket.                                                             *)
(***************************************************************************)
HasClose(q) == \E i \in 1..Len(net[q]) : net[q][i].t = "close"

\* The server forwards a frame to q while q's socket is up.
Push(n, q, f) ==
    IF ws[q] = "open" /\ ~HasClose(q) THEN [n EXCEPT ![q] = Append(@, f)] ELSE n

\* ws.Write / ws.send by p: the frame goes to the counterpart if p's socket is open.
Write(n, p, f) == IF ws[p] = "open" THEN Push(n, Other(p), f) ELSE n

Log(s, p, t) ==
    IF ws[p] = "open" THEN [s EXCEPT ![p] = Append(@, <<t, key[p] # NoKey>>)] ELSE s

\* Close propagation by the server: a protocol code is forwarded as it is, any
\* other closure as ClosePeerHungUp.
ForwardedCode(code) == IF code \in ProtocolCodes THEN code ELSE ClosePeerHungUp

\* p closes its socket with the given status: frames still on their way to p are
\* lost and the server closes the counterpart.
CloseNet(n, p, code) ==
    [Push(n, Other(p), CloseFrame(ForwardedCode(code))) EXCEPT ![p] = <<>>]

Readable(p) == ws[p] = "open" /\ net[p] # <<>>

\* The side of a Wormhole decides which half of the PAKE it runs: the joiner
\* (sideJoin, state "b") starts it, the initiator (sideNew, state "a") answers.
StartsPake_both(p) == TRUE

StartsPake_swapped(p) == p = "A"

StartsPake(p) == p = "B"

\* The state the constructor of the browser peer leaves: "b" with a code, else "a".
InitialState(p) == IF StartsPake(p) THEN "b" ELSE "a"

(***************************************************************************)
(* Initial state: nothing is connected.                                    *)
(***************************************************************************)
InitHandshake ==
    /\ impl \in [P -> {"go", "js"}]
    /\ pass \in {f \in [P -> Passphrases] : f["A"] = 1}
    /\ pc = [p \in P |-> IF impl[p] = "go" THEN "idle" ELSE InitialState(p)]
    /\ key = [p \in P |-> NoKey]
    /\ ws = [p \in P |-> "none"]
    /\ wsCode = [p \in P |-> 0]
    /\ net = [p \in P |-> <<>>]
    /\ sent = [p \in P |-> <<>>]
    /\ ret = [p \in P |-> None]
    /\ nfail = [p \in P |-> 0]
    /\ rc = [p \in P |-> "off"]
    /\ lc = [p \in P |-> FALSE]
    /\ cb = [p \in P |-> FALSE]
    /\ gath = [p \in P |-> "idle"]
    /\ ncand = [p \in P |-> 0]
    /\ nnil = [p \in P |-> 0]
    /\ pconn = [p \in P |-> "none"]
    /\ rdesc = [p \in P |-> ""]
    /\ added = [p \in P |-> <<>>]
    /\ p2 = [p \in P |-> FALSE]
    /\ cont = [p \in P |-> "none"]
    /\ pend = [p \in P |-> <<>>]
    /\ openFail = [p \in P |-> ""]
    /\ opened = [p \in P |-> FALSE]
    /\ slot = "none"
    /\ srvClosed = [p \in P |-> 0]
    /\ tampered = 0
    /\ injected = 0
    /\ closedWith = [p \in P |-> 0]
    /\ gotEnd = [p \in P |-> FALSE]
    /\ side = [p \in P |-> "sideNone"]
    /\ ndial = [p \in P |-> 0]
    /\ iceState = [p \in P |-> "new"]
    /\ connType = [p \in P |-> ""]
    /\ forged = 0
    /\ inDefault = [p \in P |-> 0]
    /\ onOpen = [p \in P |-> "idle"]
    /\ binUsed = [p \in P |-> FALSE]

\* No DataChannel is in use during the handshake.
InitNoChannel ==
    /\ buffered = 0
    /\ wpc = [w \in Writers |-> "off"]
    /\ nwrites = [w \in Writers |-> 0]
    /\ seen = [w \in Writers |-> 0]
    /\ flushL = 0
    /\ lowPending = 0
    /\ closing = "off"
    /\ attempts = <<>>
    /\ failed = {}
    /\ cerr = None

Init == InitHandshake /\ InitNoChannel


gatherVars == <<gath, ncand, nnil>>
jsVars == <<p2, cont, pend, nfail>>
pcVars == <<pconn, rdesc, added>>
envVars == <<impl, pass, srvClosed, tampered, injected>>
ghostVars == <<openFail, opened>>
callVars == <<side, ndial>>
iceVars == <<iceState, connType>>

\* The close a read of p is about to return, recorded.
\* The frame p is about to read opens under p's key and holds the empty candidate.
EndOpened(p) ==
    /\ Readable(p)
    /\ Head(net[p]).t = "end"
    /\ OpenOK(key[p], Head(net[p]))

\* ws.Read returns the type of the message, which its callers drop: a binary
\* message is used like a text message.
BinRead(p) ==
    IF Readable(p) /\ Head(net[p]).bin
    THEN [binUsed EXCEPT ![p] = TRUE]
    ELSE binUsed

CloseSeen(p) ==
    IF Readable(p) /\ Head(net[p]).t = "close"
    THEN [closedWith EXCEPT ![p] = Head(net[p]).c]
    ELSE closedWith

(***************************************************************************)
(* The Go peer: New / Join.                                                *)
(***************************************************************************)
\* What the server may answer to a connection attempt.
ConnectCloseCodes == {CloseNoSuchSlot, CloseSlotTimedOut, CloseNoMoreSlots,
                      CloseWrongProto}

\* The server accepts p: the initiator opens the slot, the joiner pairs with it.
CanAccept(p) == IF p = "A" THEN slot = "none" ELSE slot = "awaiting"
Accepted(p) == IF p = "A" THEN "awaiting" ELSE "paired"

\* newWormhole succeeds: the init frame was read.
GoConnectOK(p) ==
    /\ impl[p] = "go" /\ pc[p] = "idle"
    /\ CanAccept(p)
    /\ slot' = Accepted(p)
    /\ pc' = [pc EXCEPT ![p] = "connected"]
    /\ ws' = [ws EXCEPT ![p] = "open"]
    /\ UNCHANGED <<key, wsCode, net, sent, ret, rc, lc, cb, gatherVars, jsVars,
                   pcVars, envVars, ghostVars>>
    /\ side' = [side EXCEPT ![p] = IF StartsPake(p) THEN "sideJoin" ELSE "sideNew"]
    /\ UNCHANGED <<closedWith, gotEnd, ndial, iceVars>>
    /\ UNCHANGED dcVars
    /\ UNCHANGED hostVars
    /\ UNCHANGED inDefault
    /\ UNCHANGED onOpen

\* newWormhole fails: websocket.Dial or readInitMsg returned an error, which is
\* a close with some status or another error; no Wormhole is returned.
GoConnectFail(p) ==
    /\ impl[p] = "go" /\ pc[p] = "idle"
    /\ \E e \in {CloseError(c) : c \in ConnectCloseCodes} \cup {ErrOther} :
         /\ ret' = [ret EXCEPT ![p] = unwrapWebsocketErr(e)]
         /\ srvClosed' = [srvClosed EXCEPT ![p] = CloseStatus(e)]
    /\ pc' = [pc EXCEPT ![p] = "failed"]
    /\ ws' = [ws EXCEPT ![p] = "closed"]
    /\ UNCHANGED <<key, wsCode, net, sent, rc, lc, cb, gatherVars, jsVars,
                   pcVars, impl, pass, tampered, injected, ghostVars, slot>>
    /\ UNCHANGED <<closedWith, gotEnd, callVars, iceVars>>
    /\ UNCHANGED dcVars
    /\ UNCHANGED hostVars
    /\ UNCHANGED inDefault
    /\ UNCHANGED onOpen

(***************************************************************************)
(* The Go peer: Dial, finishNew, finishJoin.                               *)
(***************************************************************************)
\* A panic ends the process: its goroutines stop and its socket drops, which the
\* server reports to the counterpart as a closure of no protocol code.
PanicDialTwice == <<"panic: called dial twice on wormhole", 0>>

GoPanic(p, why) ==
    /\ ret' = [ret EXCEPT ![p] = why]
    /\ pc' = [pc EXCEPT ![p] = "panicked"]
    /\ ws' = [ws EXCEPT ![p] = IF @ = "none" THEN @ ELSE "closed"]
    /\ net' = IF ws[p] = "open" THEN CloseNet(net, p, StatusNormalClosure) ELSE net
    /\ rc' = [rc EXCEPT ![p] = "off"]
    /\ gath' = [gath EXCEPT ![p] = "idle"]

\* The call returns err and leaves the socket as it is.
GoReturn(p, err) ==
    /\ ret' = [ret EXCEPT ![p] = err]
    /\ pc' = [pc EXCEPT ![p] = "returned"]

\* Dial: c.pc = pc, the panic on sideNone, then finishNew, which sets sideNone
\* first, or finishJoin, which starts the PAKE and writes msgA at once (a write
\* on a closed socket fails and finishJoin returns the error).  What the model
\* records of a run of the handshake (sent, openFail, ret) starts anew.
GoDial(p) ==
    /\ impl[p] = "go" /\ pc[p] \in {"connected", "returned"}
    /\ ndial[p] < MaxDial
    /\ ndial' = [ndial EXCEPT ![p] = @ + 1]
    /\ pconn' = [pconn EXCEPT ![p] = "open"]
    /\ IF side[p] = "sideNone"
       THEN /\ GoPanic(p, PanicDialTwice)
            /\ UNCHANGED <<sent, side>>
       ELSE IF side[p] = "sideNew"
       THEN /\ side' = [side EXCEPT ![p] = "sideNone"]
            /\ pc' = [pc EXCEPT ![p] = "n_readA"]
            /\ UNCHANGED <<net, sent, ws, ret, rc, gath>>
       ELSE IF ws[p] = "open"
       THEN /\ pc' = [pc EXCEPT ![p] = "j_readB"]
            /\ net' = Write(net, p, PakeAFrame(ndial[p] + 1))
            /\ sent' = [sent EXCEPT ![p] = <<<<"pakeA", key[p] # NoKey>>>>]
            /\ ret' = [ret EXCEPT ![p] = None]
            /\ UNCHANGED <<ws, rc, gath, side>>
       ELSE /\ GoReturn(p, ErrOther)
            /\ UNCHANGED <<net, sent, ws, rc, gath, side>>
    /\ openFail' = [openFail EXCEPT ![p] = ""]
    /\ UNCHANGED <<key, wsCode, lc, cb, ncand, nnil, jsVars, rdesc, added, envVars,
                   opened, slot, closedWith, gotEnd, iceVars>>
    /\ UNCHANGED dcVars
    /\ UNCHANGED hostVars
    /\ UNCHANGED inDefault
    /\ UNCHANGED onOpen

\* A read that returned a close: the socket is closed; the call returns err.
GoReadClosed(p, err) ==
    /\ ws' = [ws EXCEPT ![p] = "closed"]
    /\ net' = [net EXCEPT ![p] = <<>>]
    /\ ret' = [ret EXCEPT ![p] = err]
    /\ pc' = [pc EXCEPT ![p] = "returned"]

\* finishNew, lines 468-490: read msgA, cpace.Exchange, derive the key, write msgB.
GoFinishNewReadA(p) ==
    /\ impl[p] = "go" /\ pc[p] = "n_readA" /\ Readable(p)
    /\ LET f == Head(net[p]) IN
       IF f.t = "close"
       THEN /\ GoReadClosed(p, CloseError(f.c))
            /\ UNCHANGED <<key, sent>>
       ELSE IF f.t \notin PakeTypes
       THEN /\ GoReturn(p, ErrOther)
            /\ net' = [net EXCEPT ![p] = Tail(@)]
            /\ UNCHANGED <<key, sent, ws>>
       ELSE /\ key' = [key EXCEPT ![p] = DeriveKey(pass[p], SawA(f), TRUE)]
            /\ net' = Write([net EXCEPT ![p] = Tail(@)], p, Frame("pakeB", NoKey))
            /\ sent' = [sent EXCEPT ![p] = Append(@, <<"pakeB", key'[p] # NoKey>>)]
            /\ pc' = [pc EXCEPT ![p] = "n_writeOffer"]
            /\ UNCHANGED <<ws, ret>>
    /\ UNCHANGED <<wsCode, rc, lc, cb, gatherVars, jsVars, pcVars, envVars,
                   ghostVars, slot>>
    /\ closedWith' = CloseSeen(p)
    /\ UNCHANGED <<gotEnd, callVars, iceVars>>
    /\ UNCHANGED dcVars
    /\ binUsed' = BinRead(p)
    /\ UNCHANGED forged
    /\ UNCHANGED inDefault
    /\ UNCHANGED onOpen

\* finishNew, lines 491-502: register the candidate callback, create the offer
\* and write it sealed.
GoFinishNewWriteOffer(p) ==
    /\ impl[p] = "go" /\ pc[p] = "n_writeOffer"
    /\ cb' = [cb EXCEPT ![p] = TRUE]
    /\ net' = Write(net, p, Frame("offer", key[p]))
    /\ sent' = Log(sent, p, "offer")
    /\ pc' = [pc EXCEPT ![p] = "n_readAns"]
    /\ UNCHANGED <<key, ws, wsCode, ret, rc, lc, gatherVars, jsVars, pcVars,
                   envVars, ghostVars, slot>>
    /\ UNCHANGED <<closedWith, gotEnd, callVars, iceVars>>
    /\ UNCHANGED dcVars
    /\ UNCHANGED hostVars
    /\ UNCHANGED inDefault
    /\ UNCHANGED onOpen

\* finishNew, lines 503-523: read the sealed answer, set both descriptions and
\* start handleRemoteCandidates.  SetLocalDescription starts the gatherer.
GoFinishNewReadAnswer(p) ==
    /\ impl[p] = "go" /\ pc[p] = "n_readAns" /\ Readable(p)
    /\ ~Head(net[p]).short
    /\ LET f == Head(net[p]) IN
       IF f.t = "close"
       THEN /\ GoReadClosed(p, IF f.c = CloseBadKey THEN ErrBadKey ELSE CloseError(f.c))
            /\ UNCHANGED <<rc, gath, rdesc, ghostVars>>
       ELSE /\ net' = [net EXCEPT ![p] = Tail(@)]
            /\ opened' = [opened EXCEPT ![p] = @ \/ IsBase64(f)]
            /\ UNCHANGED ws
            /\ IF ~IsBase64(f)
               THEN /\ GoReturn(p, ErrOther)
                    /\ UNCHANGED <<rc, gath, rdesc, openFail>>
               ELSE IF ~OpenOK(key[p], f)
               THEN /\ GoReturn(p, ErrBadKey)
                    /\ openFail' = [openFail EXCEPT ![p] = "answer"]
                    /\ UNCHANGED <<rc, gath, rdesc>>
               ELSE IF f.t = "bye"
               THEN /\ GoReturn(p, ErrOther)
                    /\ UNCHANGED <<rc, gath, rdesc, openFail>>
               ELSE IF f.t # "answer"
               THEN /\ GoReturn(p, ErrOther)
                    /\ gath' = [gath EXCEPT ![p] = "run"]
                    /\ UNCHANGED <<rc, rdesc, openFail>>
               ELSE /\ gath' = [gath EXCEPT ![p] = "run"]
                    /\ rdesc' = [rdesc EXCEPT ![p] = "answer"]
                    /\ rc' = [rc EXCEPT ![p] = "run"]
                    /\ pc' = [pc EXCEPT ![p] = "d_wait"]
                    /\ UNCHANGED <<ret, openFail>>
    /\ UNCHANGED <<key, wsCode, sent, lc, cb, ncand, nnil, jsVars, pconn, added,
                   envVars, slot>>
    /\ closedWith' = CloseSeen(p)
    /\ UNCHANGED <<gotEnd, callVars, iceVars>>
    /\ UNCHANGED dcVars
    /\ binUsed' = BinRead(p)
    /\ UNCHANGED forged
    /\ UNCHANGED inDefault
    /\ UNCHANGED onOpen

\* finishJoin, lines 547-562: read msgB, finish the PAKE, derive the key and
\* register the candidate callback.
GoFinishJoinReadB(p) ==
    /\ impl[p] = "go" /\ pc[p] = "j_readB" /\ Readable(p)
    /\ LET f == Head(net[p]) IN
       IF f.t = "close"
       THEN /\ GoReadClosed(p, CloseError(f.c))
            /\ UNCHANGED <<key, cb>>
       ELSE /\ net' = [net EXCEPT ![p] = Tail(@)]
            /\ UNCHANGED ws
            /\ IF f.t \notin PakeTypes
               THEN /\ GoReturn(p, ErrOther)
                    /\ UNCHANGED <<key, cb>>
               ELSE /\ key' = [key EXCEPT ![p] = DeriveKey(pass[p], OwnA(p), f.ok)]
                    /\ cb' = [cb EXCEPT ![p] = TRUE]
                    /\ pc' = [pc EXCEPT ![p] = "j_readOffer"]
                    /\ UNCHANGED ret
    /\ UNCHANGED <<wsCode, sent, rc, lc, gatherVars, jsVars, pcVars, envVars,
                   ghostVars, slot>>
    /\ closedWith' = CloseSeen(p)
    /\ UNCHANGED <<gotEnd, callVars, iceVars>>
    /\ UNCHANGED dcVars
    /\ binUsed' = BinRead(p)
    /\ UNCHANGED forged
    /\ UNCHANGED inDefault
    /\ UNCHANGED onOpen

\* finishJoin, lines 563-596: read the sealed offer; on ErrBadKey close the socket
\* with CloseBadKey; else set the remote description, write the sealed answer,
\* set the local description and start handleRemoteCandidates.
GoFinishJoinReadOffer(p) ==
    /\ impl[p] = "go" /\ pc[p] = "j_readOffer" /\ Readable(p)
    /\ ~Head(net[p]).short
    /\ LET f == Head(net[p]) IN
       IF f.t = "close"
       THEN /\ GoReadClosed(p, CloseError(f.c))
            /\ UNCHANGED <<wsCode, sent, rc, gath, rdesc, ghostVars, slot>>
       ELSE /\ opened' = [opened EXCEPT ![p] = @ \/ IsBase64(f)]
            /\ IF ~IsBase64(f)
               THEN /\ GoReturn(p, ErrOther)
                    /\ net' = [net EXCEPT ![p] = Tail(@)]
                    /\ UNCHANGED <<ws, wsCode, sent, rc, gath, rdesc, openFail, slot>>
               ELSE IF ~OpenOK(key[p], f)
               THEN /\ GoReturn(p, ErrBadKey)
                    /\ openFail' = [openFail EXCEPT ![p] = "offer"]
                    /\ ws' = [ws EXCEPT ![p] = "closed"]
                    /\ wsCode' = [wsCode EXCEPT ![p] = CloseBadKey]
                    /\ net' = CloseNet(net, p, CloseBadKey)
                    /\ slot' = "closed"
                    /\ UNCHANGED <<sent, rc, gath, rdesc>>
               ELSE IF f.t # "offer"
               THEN /\ GoReturn(p, ErrOther)
                    /\ net' = [net EXCEPT ![p] = Tail(@)]
                    /\ UNCHANGED <<ws, wsCode, sent, rc, gath, rdesc, openFail, slot>>
               ELSE /\ rdesc' = [rdesc EXCEPT ![p] = "offer"]
                    /\ net' = Write([net EXCEPT ![p] = Tail(@)], p, Frame("answer", key[p]))
                    /\ sent' = Log(sent, p, "answer")
                    /\ gath' = [gath EXCEPT ![p] = "run"]
                    /\ rc' = [rc EXCEPT ![p] = "run"]
                    /\ pc' = [pc EXCEPT ![p] = "d_wait"]
                    /\ UNCHANGED <<ws, wsCode, ret, openFail, slot>>
    /\ UNCHANGED <<key, lc, cb, ncand, nnil, jsVars, pconn, added, envVars>>
    /\ closedWith' = CloseSeen(p)
    /\ UNCHANGED <<gotEnd, callVars, iceVars>>
    /\ UNCHANGED dcVars
    /\ binUsed' = BinRead(p)
    /\ UNCHANGED forged
    /\ UNCHANGED inDefault
    /\ UNCHANGED onOpen

\* readEncJSON on a frame that decodes to fewer than 24 bytes: encrypted[:24]
\* is out of range and the program panics, in the handshake task or in the
\* goroutine of handleRemoteCandidates.
PanicSlice == <<"panic: slice bounds out of range", 0>>

ReadsSealed(p) == pc[p] \in {"n_readAns", "j_readOffer"} \/ rc[p] = "run"

GoReadShort(p) ==
    /\ impl[p] = "go" /\ ReadsSealed(p)
    /\ Readable(p) /\ Head(net[p]).short
    /\ GoPanic(p, PanicSlice)
    /\ slot' = "closed"
    /\ UNCHANGED <<key, wsCode, sent, nfail, lc, cb, ncand, nnil, pconn, rdesc, added,
                   p2, cont, pend, envVars, ghostVars, closedWith, gotEnd, callVars,
                   iceVars>>
    /\ UNCHANGED dcVars
    /\ binUsed' = BinRead(p)
    /\ UNCHANGED forged
    /\ UNCHANGED inDefault
    /\ UNCHANGED onOpen

\* Dial, lines 371 and 374: c.ws.Close(websocket.StatusNormalClosure, "").
WsClose_leak(p) == ws

WsClose(p) == [ws EXCEPT ![p] = "closed"]

\* Dial's 30-second timer runs from the moment finishNew / finishJoin has
\* returned nil (time.After in the select of lines 366-376).
TimerArmed(p) == impl[p] = "go" /\ pc[p] = "d_wait"

\* Dial, lines 359-372: both candidate channels are closed; close the socket and
\* return nil.
GoDialDone(p) ==
    /\ impl[p] = "go" /\ pc[p] = "d_wait"
    /\ rc[p] = "done" /\ lc[p]
    /\ ws' = WsClose(p)
    /\ wsCode' = [wsCode EXCEPT ![p] = IF ws[p] = "open" THEN StatusNormalClosure ELSE @]
    /\ net' = IF ws[p] = "open" THEN CloseNet(net, p, StatusNormalClosure) ELSE net
    /\ slot' = "closed"
    /\ ret' = [ret EXCEPT ![p] = Nil]
    /\ pc' = [pc EXCEPT ![p] = "returned"]
    /\ UNCHANGED <<key, sent, rc, lc, cb, gatherVars, jsVars, pcVars, envVars,
                   ghostVars>>
    /\ UNCHANGED <<closedWith, gotEnd, callVars, iceVars>>
    /\ UNCHANGED dcVars
    /\ UNCHANGED hostVars
    /\ UNCHANGED inDefault
    /\ UNCHANGED onOpen

\* Dial, lines 373-375: the timer fires; close the socket and return ErrTimedOut.
GoDialTimeout(p) ==
    /\ TimerArmed(p)
    /\ ws' = WsClose(p)
    /\ wsCode' = [wsCode EXCEPT ![p] = IF ws[p] = "open" THEN StatusNormalClosure ELSE @]
    /\ net' = IF ws[p] = "open" THEN CloseNet(net, p, StatusNormalClosure) ELSE net
    /\ slot' = "closed"
    /\ ret' = [ret EXCEPT ![p] = ErrTimedOut]
    /\ pc' = [pc EXCEPT ![p] = "returned"]
    /\ UNCHANGED <<key, sent, rc, lc, cb, gatherVars, jsVars, pcVars, envVars,
                   ghostVars>>
    /\ UNCHANGED <<closedWith, gotEnd, callVars, iceVars>>
    /\ UNCHANGED dcVars
    /\ UNCHANGED hostVars
    /\ UNCHANGED inDefault
    /\ UNCHANGED onOpen

\* handleRemoteCandidates: one turn of the loop.  Any read error, a failed open
\* and an empty candidate end the goroutine, which closes remoteCandidate.
GoHandleRemoteCandidates(p) ==
    /\ impl[p] = "go" /\ rc[p] = "run"
    /\ ~(Readable(p) /\ Head(net[p]).short)
    /\ IF ws[p] # "open"
       THEN /\ rc' = [rc EXCEPT ![p] = "done"]
            /\ UNCHANGED <<ws, net, added, ghostVars>>
       ELSE /\ net[p] # <<>>
            /\ LET f == Head(net[p]) IN
               IF f.t = "close"
               THEN /\ rc' = [rc EXCEPT ![p] = "done"]
                    /\ ws' = [ws EXCEPT ![p] = "closed"]
                    /\ net' = [net EXCEPT ![p] = <<>>]
                    /\ UNCHANGED <<added, ghostVars>>
               ELSE /\ net' = [net EXCEPT ![p] = Tail(@)]
                    /\ opened' = [opened EXCEPT ![p] = @ \/ IsBase64(f)]
                    /\ UNCHANGED ws
                    /\ IF ~IsBase64(f)
                       THEN /\ rc' = [rc EXCEPT ![p] = "done"]
                            /\ UNCHANGED <<added, openFail>>
                       ELSE IF ~OpenOK(key[p], f)
                       THEN /\ rc' = [rc EXCEPT ![p] = "done"]
                            /\ openFail' = [openFail EXCEPT ![p] = "cand"]
                            /\ UNCHANGED added
                       ELSE IF f.t = "cand"
                       THEN /\ added' = [added EXCEPT ![p] = Append(@, <<f.t, f.n>>)]
                            /\ UNCHANGED <<rc, openFail>>
                       ELSE /\ rc' = [rc EXCEPT ![p] = "done"]
                            /\ UNCHANGED <<added, openFail>>
    /\ UNCHANGED <<key, wsCode, pc, sent, ret, lc, cb, gatherVars, jsVars, pconn,
                   rdesc, envVars, slot>>
    /\ closedWith' = CloseSeen(p)
    /\ UNCHANGED <<callVars, iceVars>>
    /\ gotEnd' = [gotEnd EXCEPT ![p] = @ \/ EndOpened(p)]
    /\ UNCHANGED dcVars
    /\ binUsed' = BinRead(p)
    /\ UNCHANGED forged
    /\ UNCHANGED inDefault
    /\ UNCHANGED onOpen

\* The gatherer reports candidates only after the local description was set,
\* and reports completion after its candidates.
CanReportCandidate_early(p) == cb[p] /\ nnil[p] = 0 /\ ncand[p] < MaxCand

CanReportCandidate(p) == cb[p] /\ gath[p] = "run" /\ nnil[p] = 0 /\ ncand[p] < MaxCand
CanReportNil_never(p) == FALSE

CanReportNil(p) == cb[p] /\ gath[p] = "run" /\ nnil[p] < MaxNil

\* handleLocalCandidates with a candidate: write it sealed.
GoHandleLocalCandidate(p) ==
    /\ impl[p] = "go" /\ CanReportCandidate(p)
    /\ ncand' = [ncand EXCEPT ![p] = @ + 1]
    /\ net' = Write(net, p, CandFrame(key[p], ncand[p] + 1))
    /\ sent' = Log(sent, p, "cand")
    /\ UNCHANGED <<key, ws, wsCode, pc, ret, rc, lc, cb, gath, nnil, jsVars, pcVars,
                   envVars, ghostVars, slot>>
    /\ UNCHANGED <<closedWith, gotEnd, callVars, iceVars>>
    /\ UNCHANGED dcVars
    /\ UNCHANGED hostVars
    /\ UNCHANGED inDefault
    /\ UNCHANGED onOpen

\* handleLocalCandidates with nil: unless localCandidate is closed already, write
\* the empty candidate and close the channel.
GoHandleLocalNil(p) ==
    /\ impl[p] = "go" /\ CanReportNil(p)
    /\ nnil' = [nnil EXCEPT ![p] = @ + 1]
    /\ IF lc[p]
       THEN UNCHANGED <<net, sent, lc>>
       ELSE /\ net' = Write(net, p, Frame("end", key[p]))
            /\ sent' = Log(sent, p, "end")
            /\ lc' = [lc EXCEPT ![p] = TRUE]
    /\ UNCHANGED <<key, ws, wsCode, pc, ret, rc, cb, gath, ncand, jsVars, pcVars,
                   envVars, ghostVars, slot>>
    /\ UNCHANGED <<closedWith, gotEnd, callVars, iceVars>>
    /\ UNCHANGED dcVars
    /\ UNCHANGED hostVars
    /\ UNCHANGED inDefault
    /\ UNCHANGED onOpen

(***************************************************************************)
(* The browser peer (ww.js).  Its handlers run one at a time on the event  *)
(* loop; a continuation registered on promise2 runs once finish() has      *)
(* resolved it, and is suspended at each await.                            *)
(***************************************************************************)
ErrUnexpected == <<"unexpected message", 0>>
ErrNoKey == <<"could not generate key", 0>>
ErrNoSlot == <<"could not get slot", 0>>
ErrConnect == <<"could not connect to signalling server", 0>>
ErrWsClosed(code) == <<"websocket session closed", code>>

Min(a, b) == IF a < b THEN a ELSE b

\* fail(reason): reject1, reject3, state = "error".  A promise keeps its first
\* settlement.
\* resolve3 (lines 221, 241): settles promise3 unless it is settled already.
Resolve3_always(r) == Nil

Resolve3(r) == IF r = None THEN Nil ELSE r

JSFail(p, reason) ==
    /\ ret' = [ret EXCEPT ![p] = IF @ = None THEN reason ELSE @]
    /\ nfail' = [nfail EXCEPT ![p] = Min(@ + 1, MaxFail)]
    /\ pc' = [pc EXCEPT ![p] = "error"]

\* The three sealed states on a failed open: fail("bad key"), send the sealed
\* "bye", close the socket with closeBadKey.
JSBadKey(p, phase) ==
    /\ JSFail(p, ErrBadKey)
    /\ openFail' = [openFail EXCEPT ![p] = phase]
    /\ net' = CloseNet(Write(net, p, Frame("bye", key[p])), p, CloseBadKey)
    /\ sent' = Log(sent, p, "bye")
    /\ ws' = [ws EXCEPT ![p] = "closed"]
    /\ wsCode' = [wsCode EXCEPT ![p] = CloseBadKey]
    /\ slot' = "closed"

\* webwormhole.open of the browser peer.
JSOpen(k, f) == OpenOK(k, f)

\* dial(): the WebSocket is created; the server accepts and sends the init frame,
\* or closes with a status.
JSDial(p) ==
    /\ impl[p] = "js" /\ ws[p] = "none"
    /\ ws' = [ws EXCEPT ![p] = "open"]
    /\ \/ /\ CanAccept(p)
          /\ slot' = Accepted(p)
          /\ net' = [net EXCEPT ![p] = <<Frame("init", NoKey)>>]
          /\ UNCHANGED srvClosed
       \/ \E c \in ConnectCloseCodes :
            /\ net' = [net EXCEPT ![p] = <<CloseFrame(c)>>]
            /\ srvClosed' = [srvClosed EXCEPT ![p] = c]
            /\ UNCHANGED slot
    /\ UNCHANGED <<key, wsCode, pc, sent, ret, rc, lc, cb, gatherVars, jsVars,
                   pcVars, impl, pass, tampered, injected, ghostVars>>
    /\ UNCHANGED <<closedWith, gotEnd, callVars, iceVars>>
    /\ UNCHANGED dcVars
    /\ UNCHANGED hostVars
    /\ UNCHANGED inDefault
    /\ UNCHANGED onOpen

\* onerror: the connection could not be made.
JSOnError(p) ==
    /\ impl[p] = "js" /\ ws[p] = "none"
    /\ ws' = [ws EXCEPT ![p] = "closed"]
    /\ JSFail(p, ErrConnect)
    /\ UNCHANGED <<key, wsCode, net, sent, rc, lc, cb, gatherVars, p2, cont, pend,
                   pcVars, envVars, ghostVars, slot>>
    /\ UNCHANGED <<closedWith, gotEnd, callVars, iceVars>>
    /\ UNCHANGED dcVars
    /\ UNCHANGED hostVars
    /\ UNCHANGED inDefault
    /\ UNCHANGED onOpen

\* onclose.
JSOnClose(p) ==
    /\ impl[p] = "js" /\ Readable(p) /\ Head(net[p]).t = "close"
    /\ ws' = [ws EXCEPT ![p] = "closed"]
    /\ net' = [net EXCEPT ![p] = <<>>]
    /\ LET code == Head(net[p]).c IN
       CASE code = CloseNoSuchSlot -> JSFail(p, ErrNoSuchSlot)
         [] code = CloseSlotTimedOut -> JSFail(p, ErrTimedOut)
         [] code = CloseNoMoreSlots -> JSFail(p, ErrNoSlot)
         [] code = CloseWrongProto -> JSFail(p, ErrBadVersion)
         [] code = ClosePeerHungUp -> UNCHANGED <<ret, nfail, pc>>
         [] OTHER -> JSFail(p, ErrWsClosed(code))
    /\ UNCHANGED <<key, wsCode, sent, rc, lc, cb, gatherVars, p2, cont, pend,
                   pcVars, envVars, ghostVars, slot>>
    /\ closedWith' = CloseSeen(p)
    /\ UNCHANGED <<gotEnd, callVars, iceVars>>
    /\ UNCHANGED dcVars
    /\ UNCHANGED hostVars
    /\ UNCHANGED inDefault
    /\ UNCHANGED onOpen

\* onmessage, states "a" and "b": the init frame; makePeerConnection, resolve1;
\* the joiner starts the PAKE and sends msgA.
JSOnInit(p) ==
    /\ impl[p] = "js" /\ pc[p] \in {"a", "b"}
    /\ Readable(p) /\ Head(net[p]).t = "init"
    /\ pconn' = [pconn EXCEPT ![p] = "open"]
    /\ cb' = [cb EXCEPT ![p] = TRUE]
    /\ IF pc[p] = "a"
       THEN /\ pc' = [pc EXCEPT ![p] = "wait_for_pake_a"]
            /\ net' = [net EXCEPT ![p] = Tail(@)]
            /\ UNCHANGED sent
       ELSE /\ pc' = [pc EXCEPT ![p] = "wait_for_pake_b"]
            /\ net' = Write([net EXCEPT ![p] = Tail(@)], p, PakeAFrame(1))
            /\ sent' = Log(sent, p, "pakeA")
    /\ UNCHANGED <<key, ws, wsCode, ret, rc, lc, gatherVars, jsVars, rdesc, added,
                   envVars, ghostVars, slot>>
    /\ UNCHANGED <<closedWith, gotEnd, callVars, iceVars>>
    /\ UNCHANGED dcVars
    /\ UNCHANGED hostVars
    /\ UNCHANGED inDefault
    /\ UNCHANGED onOpen

\* onmessage, states "wait_for_pake_a" and "wait_for_pake_b": exchange / finish
\* give the key, or no key, and then the peer fails.
JSOnPake(p) ==
    /\ impl[p] = "js" /\ pc[p] \in {"wait_for_pake_a", "wait_for_pake_b"}
    /\ Readable(p) /\ Head(net[p]).t # "close"
    /\ LET f == Head(net[p])
           k == IF f.t \notin PakeTypes THEN NoKey
                ELSE IF pc[p] = "wait_for_pake_a" THEN DeriveKey(pass[p], SawA(f), TRUE)
                ELSE DeriveKey(pass[p], OwnA(p), f.ok) IN
       /\ key' = [key EXCEPT ![p] = k]
       /\ IF k = NoKey
          THEN /\ JSFail(p, ErrNoKey)
               /\ net' = [net EXCEPT ![p] = Tail(@)]
               /\ UNCHANGED <<sent, cont>>
          ELSE IF pc[p] = "wait_for_pake_a"
          THEN /\ net' = Write([net EXCEPT ![p] = Tail(@)], p, Frame("pakeB", NoKey))
               /\ sent' = [sent EXCEPT ![p] = Append(@, <<"pakeB", TRUE>>)]
               /\ pc' = [pc EXCEPT ![p] = "wait_for_pc_initialize"]
               /\ cont' = [cont EXCEPT ![p] = IF p2[p] THEN "offer_create" ELSE "offer_wait"]
               /\ UNCHANGED <<ret, nfail>>
          ELSE /\ net' = [net EXCEPT ![p] = Tail(@)]
               /\ pc' = [pc EXCEPT ![p] = "wait_for_webtc_offer"]
               /\ UNCHANGED <<sent, ret, nfail, cont>>
    /\ UNCHANGED <<ws, wsCode, rc, lc, cb, gatherVars, p2, pend, pcVars, envVars,
                   ghostVars, slot>>
    /\ UNCHANGED <<closedWith, gotEnd, callVars, iceVars>>
    /\ UNCHANGED dcVars
    /\ UNCHANGED hostVars
    /\ UNCHANGED inDefault
    /\ UNCHANGED onOpen

\* onmessage, states "wait_for_webtc_offer" and "wait_for_webtc_answer".
JSOnDescription(p) ==
    /\ impl[p] = "js" /\ pc[p] \in {"wait_for_webtc_offer", "wait_for_webtc_answer"}
    /\ Readable(p) /\ Head(net[p]).t # "close"
    /\ LET f == Head(net[p])
           want == IF pc[p] = "wait_for_webtc_offer" THEN "offer" ELSE "answer" IN
       IF key[p] = NoKey \/ pconn[p] = "none"
       THEN /\ net' = [net EXCEPT ![p] = Tail(@)]
            /\ UNCHANGED <<ws, wsCode, sent, openFail, opened, slot, ret, nfail, pc,
                           rdesc, cont>>
       ELSE IF ~JSOpen(key[p], f)
       THEN /\ JSBadKey(p, want)
            /\ opened' = [opened EXCEPT ![p] = TRUE]
            /\ UNCHANGED <<rdesc, cont>>
       ELSE /\ net' = [net EXCEPT ![p] = Tail(@)]
            /\ opened' = [opened EXCEPT ![p] = TRUE]
            /\ UNCHANGED <<ws, wsCode, sent, openFail, slot>>
            /\ IF f.t = "bye"
               THEN UNCHANGED <<ret, nfail, pc, rdesc, cont>>
               ELSE IF f.t # want
               THEN /\ JSFail(p, ErrUnexpected)
                    /\ UNCHANGED <<rdesc, cont>>
               ELSE IF want = "offer"
               THEN /\ pc' = [pc EXCEPT ![p] = "wait_for_candidates"]
                    /\ cont' = [cont EXCEPT ![p] =
                                   IF p2[p] THEN "answer_srd" ELSE "answer_wait"]
                    /\ UNCHANGED <<ret, nfail, rdesc>>
               ELSE /\ rdesc' = [rdesc EXCEPT ![p] = "answer"]
                    /\ ret' = [ret EXCEPT ![p] = Resolve3(@)]
                    /\ pc' = [pc EXCEPT ![p] = "wait_for_candidates"]
                    /\ UNCHANGED <<nfail, cont>>
    /\ UNCHANGED <<key, rc, lc, cb, gatherVars, p2, pend, pconn, added, envVars>>
    /\ UNCHANGED <<closedWith, gotEnd, callVars, iceVars>>
    /\ UNCHANGED dcVars
    /\ UNCHANGED hostVars
    /\ UNCHANGED inDefault
    /\ UNCHANGED onOpen

\* pc.addIceCandidate takes effect once promise2 is resolved and the remote
\* description is applied: the continuations of promise2 run in the order of
\* their registration and the pc runs its operations one after another.
CanAddNow_noDesc(p) == p2[p]

CanAddNow(p) == p2[p] /\ rdesc[p] # ""

\* onmessage, state "wait_for_candidates": whatever opens and parses is handed to
\* addIceCandidate, the empty candidate too; the sealed "bye" does not parse.
JSOnCandidate(p) ==
    /\ impl[p] = "js" /\ pc[p] = "wait_for_candidates"
    /\ Readable(p) /\ Head(net[p]).t # "close"
    /\ LET f == Head(net[p]) IN
       IF key[p] = NoKey \/ pconn[p] = "none"
       THEN /\ net' = [net EXCEPT ![p] = Tail(@)]
            /\ UNCHANGED <<ws, wsCode, sent, openFail, opened, slot, ret, nfail, pc,
                           added, pend>>
       ELSE IF ~JSOpen(key[p], f)
       THEN /\ JSBadKey(p, "cand")
            /\ opened' = [opened EXCEPT ![p] = TRUE]
            /\ UNCHANGED <<added, pend>>
       ELSE /\ net' = [net EXCEPT ![p] = Tail(@)]
            /\ opened' = [opened EXCEPT ![p] = TRUE]
            /\ UNCHANGED <<ws, wsCode, sent, openFail, slot, ret, nfail, pc>>
            /\ IF f.t = "bye"
               THEN UNCHANGED <<added, pend>>
               ELSE IF CanAddNow(p)
               THEN /\ added' = [added EXCEPT ![p] = Append(@, <<f.t, f.n>>)]
                    /\ UNCHANGED pend
               ELSE /\ pend' = [pend EXCEPT ![p] = Append(@, <<f.t, f.n>>)]
                    /\ UNCHANGED added
    /\ UNCHANGED <<key, rc, lc, cb, gatherVars, p2, cont, pconn, rdesc, envVars>>
    /\ UNCHANGED <<closedWith, callVars, iceVars>>
    /\ gotEnd' = [gotEnd EXCEPT ![p] = @ \/ EndOpened(p)]
    /\ UNCHANGED dcVars
    /\ UNCHANGED hostVars
    /\ UNCHANGED inDefault
    /\ UNCHANGED onOpen

\* onmessage, states "wait_for_pc_initialize" (fail) and "error" (ignore).
JSOnUnexpected(p) ==
    /\ impl[p] = "js" /\ pc[p] \in {"wait_for_pc_initialize", "error"}
    /\ Readable(p) /\ Head(net[p]).t # "close"
    /\ net' = [net EXCEPT ![p] = Tail(@)]
    /\ IF pc[p] = "error"
       THEN UNCHANGED <<ret, nfail, pc>>
       ELSE JSFail(p, ErrUnexpected)
    /\ UNCHANGED <<key, ws, wsCode, sent, rc, lc, cb, gatherVars, p2, cont, pend,
                   pcVars, envVars, ghostVars, slot>>
    /\ UNCHANGED <<closedWith, gotEnd, callVars, iceVars>>
    /\ UNCHANGED dcVars
    /\ UNCHANGED hostVars
    /\ UNCHANGED inDefault
    /\ UNCHANGED onOpen

\* finish(): the caller resolves promise2; the continuations registered on it
\* start in the order of their registration.
JSFinish(p) ==
    /\ impl[p] = "js" /\ pconn[p] = "open" /\ ~p2[p]
    /\ p2' = [p2 EXCEPT ![p] = TRUE]
    /\ cont' = [cont EXCEPT ![p] = CASE @ = "offer_wait" -> "offer_create"
                                     [] @ = "answer_wait" -> "answer_srd"
                                     [] OTHER -> @]
    /\ IF rdesc[p] # ""
       THEN /\ added' = [added EXCEPT ![p] = @ \o pend[p]]
            /\ pend' = [pend EXCEPT ![p] = <<>>]
       ELSE UNCHANGED <<added, pend>>
    /\ UNCHANGED <<key, ws, wsCode, net, pc, sent, ret, nfail, rc, lc, cb, gatherVars,
                   pconn, rdesc, envVars, ghostVars, slot>>
    /\ UNCHANGED <<closedWith, gotEnd, callVars, iceVars>>
    /\ UNCHANGED dcVars
    /\ UNCHANGED hostVars
    /\ UNCHANGED inDefault
    /\ UNCHANGED onOpen

\* The initiator's continuation after createOffer: send the sealed offer, enter
\* "wait_for_webtc_answer", set the local description.
JSOfferCreated(p) ==
    /\ impl[p] = "js" /\ cont[p] = "offer_create"
    /\ net' = Write(net, p, Frame("offer", key[p]))
    /\ sent' = Log(sent, p, "offer")
    /\ pc' = [pc EXCEPT ![p] = "wait_for_webtc_answer"]
    /\ gath' = [gath EXCEPT ![p] = "run"]
    /\ cont' = [cont EXCEPT ![p] = "done"]
    /\ UNCHANGED <<key, ws, wsCode, ret, nfail, rc, lc, cb, ncand, nnil, p2, pend,
                   pcVars, envVars, ghostVars, slot>>
    /\ UNCHANGED <<closedWith, gotEnd, callVars, iceVars>>
    /\ UNCHANGED dcVars
    /\ UNCHANGED hostVars
    /\ UNCHANGED inDefault
    /\ UNCHANGED onOpen

\* The joiner's continuation after setRemoteDescription: create the answer.
JSRemoteSet(p) ==
    /\ impl[p] = "js" /\ cont[p] = "answer_srd"
    /\ rdesc' = [rdesc EXCEPT ![p] = "offer"]
    /\ cont' = [cont EXCEPT ![p] = "answer_create"]
    /\ added' = [added EXCEPT ![p] = @ \o pend[p]]
    /\ pend' = [pend EXCEPT ![p] = <<>>]
    /\ UNCHANGED <<key, ws, wsCode, net, pc, sent, ret, nfail, rc, lc, cb, gatherVars,
                   p2, pconn, envVars, ghostVars, slot>>
    /\ UNCHANGED <<closedWith, gotEnd, callVars, iceVars>>
    /\ UNCHANGED dcVars
    /\ UNCHANGED hostVars
    /\ UNCHANGED inDefault
    /\ UNCHANGED onOpen

\* The joiner's continuation after createAnswer: send the sealed answer,
\* resolve3, set the local description.
JSAnswerCreated(p) ==
    /\ impl[p] = "js" /\ cont[p] = "answer_create"
    /\ net' = Write(net, p, Frame("answer", key[p]))
    /\ sent' = Log(sent, p, "answer")
    /\ ret' = [ret EXCEPT ![p] = Resolve3(@)]
    /\ gath' = [gath EXCEPT ![p] = "run"]
    /\ cont' = [cont EXCEPT ![p] = "done"]
    /\ UNCHANGED <<key, ws, wsCode, pc, nfail, rc, lc, cb, ncand, nnil, p2, pend,
                   pcVars, envVars, ghostVars, slot>>
    /\ UNCHANGED <<closedWith, gotEnd, callVars, iceVars>>
    /\ UNCHANGED dcVars
    /\ UNCHANGED hostVars
    /\ UNCHANGED inDefault
    /\ UNCHANGED onOpen

\* onicecandidate with a candidate: sent sealed if the key is there.
JSKeyGuard(p) == key[p] # NoKey

JSOnIceCandidate(p) ==
    /\ impl[p] = "js" /\ CanReportCandidate(p)
    /\ ncand' = [ncand EXCEPT ![p] = @ + 1]
    /\ IF JSKeyGuard(p)
       THEN /\ net' = Write(net, p, CandFrame(key[p], ncand[p] + 1))
            /\ sent' = Log(sent, p, "cand")
       ELSE UNCHANGED <<net, sent>>
    /\ UNCHANGED <<key, ws, wsCode, pc, ret, rc, lc, cb, gath, nnil, jsVars, pcVars,
                   envVars, ghostVars, slot>>
    /\ UNCHANGED <<closedWith, gotEnd, callVars, iceVars>>
    /\ UNCHANGED dcVars
    /\ UNCHANGED hostVars
    /\ UNCHANGED inDefault
    /\ UNCHANGED onOpen

\* onicecandidate with a null candidate: nothing is sent.
JSOnIceNil(p) ==
    /\ impl[p] = "js" /\ CanReportNil(p)
    /\ nnil' = [nnil EXCEPT ![p] = @ + 1]
    /\ UNCHANGED <<key, ws, wsCode, net, pc, sent, ret, rc, lc, cb, gath, ncand, jsVars,
                   pcVars, envVars, ghostVars, slot>>
    /\ UNCHANGED <<closedWith, gotEnd, callVars, iceVars>>
    /\ UNCHANGED dcVars
    /\ UNCHANGED hostVars
    /\ UNCHANGED inDefault
    /\ UNCHANGED onOpen

(***************************************************************************)
(* The peer connection's ICE state and close().                            *)
(***************************************************************************)
\* What connType() can read from the statistics of the selected pair; "" stands
\* for a type that is none of the four.
IceTypes == {"host", "srflx", "prflx", "relay", ""}

\* close(), the switch on the candidate type.
SuccessCode(t) ==
    IF t \in {"host", "srflx", "prflx"} THEN CloseWebRTCSuccessDirect
    ELSE IF t = "relay" THEN CloseWebRTCSuccessRelay
    ELSE CloseWebRTCSuccess

\* A candidate pair exists once one side has added a candidate of the other.
HasPair(p) ==
    \E q \in P : \E i \in 1..Len(added[q]) : added[q][i][1] = "cand"

\* The peer connection changes pc.iceConnectionState: the connectivity checks run
\* on the candidate pairs once both descriptions are set and end in "connected"
\* or in "failed".
IceReport(p, st) ==
    /\ iceState[p] = "new" /\ st \in {"connected", "failed"}
    /\ ws[p] = "open" /\ pc[p] # "gone"
    /\ rdesc[p] # "" /\ gath[p] = "run" /\ HasPair(p)
    /\ iceState' = [iceState EXCEPT ![p] = st]
    /\ UNCHANGED <<pc, key, ws, wsCode, net, sent, ret, nfail, rc, lc, cb, gath, ncand,
                   nnil, pconn, rdesc, added, p2, cont, pend, slot, envVars, ghostVars,
                   closedWith, gotEnd, callVars, connType>>
    /\ UNCHANGED dcVars
    /\ UNCHANGED hostVars
    /\ UNCHANGED inDefault
    /\ UNCHANGED onOpen

\* close(): nothing without a pc; on "connected" the socket is closed with the
\* code of the candidate type, on "failed" with closeWebRTCFailed, in any other
\* state it is left open.
JSClose(p, t) ==
    /\ impl[p] = "js" /\ pconn[p] # "none" /\ pc[p] # "gone"
    /\ ws[p] = "open"
    /\ iceState[p] \in {"connected", "failed"}
    /\ t \in IceTypes /\ (iceState[p] = "failed" => t = "")
    /\ LET code == IF iceState[p] = "connected" THEN SuccessCode(t)
                   ELSE CloseWebRTCFailed IN
       /\ wsCode' = [wsCode EXCEPT ![p] = code]
       /\ net' = CloseNet(net, p, code)
    /\ connType' = [connType EXCEPT ![p] = t]
    /\ ws' = [ws EXCEPT ![p] = "closed"]
    /\ slot' = "closed"
    /\ UNCHANGED <<pc, key, sent, ret, nfail, rc, lc, cb, gath, ncand, nnil, pconn,
                   rdesc, added, p2, cont, pend, envVars, ghostVars, closedWith,
                   gotEnd, callVars, iceState>>
    /\ UNCHANGED dcVars
    /\ UNCHANGED hostVars
    /\ UNCHANGED inDefault
    /\ UNCHANGED onOpen

(***************************************************************************)
(* The server.                                                             *)
(***************************************************************************)
\* A slot that waits for its joiner past the deadline is closed with
\* CloseSlotTimedOut.
SlotTimeout ==
    /\ slot = "awaiting"
    /\ slot' = "closed"
    /\ net' = Push(net, "A", CloseFrame(CloseSlotTimedOut))
    /\ srvClosed' = [srvClosed EXCEPT !["A"] = CloseSlotTimedOut]
    /\ UNCHANGED <<key, ws, wsCode, pc, sent, ret, rc, lc, cb, gatherVars, jsVars,
                   pcVars, impl, pass, tampered, injected, ghostVars>>
    /\ UNCHANGED <<closedWith, gotEnd, callVars, iceVars>>
    /\ UNCHANGED dcVars
    /\ UNCHANGED hostVars
    /\ UNCHANGED inDefault
    /\ UNCHANGED onOpen

\* A peer's process ends while the counterpart is still in the handshake (the
\* program is stopped, the tab is closed): nothing of it runs any more; its
\* socket drops and the server closes the counterpart.
Exit(p) ==
    /\ ws[p] = "open" /\ slot = "paired"
    /\ pc[p] \notin {"gone", "panicked"}
    /\ rdesc[Other(p)] = ""
    /\ pc' = [pc EXCEPT ![p] = "gone"]
    /\ ws' = [ws EXCEPT ![p] = "closed"]
    /\ net' = CloseNet(net, p, StatusNormalClosure)
    /\ slot' = "closed"
    /\ rc' = [rc EXCEPT ![p] = "off"]
    /\ gath' = [gath EXCEPT ![p] = "idle"]
    /\ cont' = [cont EXCEPT ![p] = IF @ = "none" THEN @ ELSE "done"]
    /\ UNCHANGED <<key, wsCode, sent, ret, lc, cb, ncand, nnil, p2, pend, nfail,
                   pcVars, envVars, ghostVars, closedWith, gotEnd, callVars, iceVars>>
    /\ UNCHANGED dcVars
    /\ UNCHANGED hostVars
    /\ UNCHANGED inDefault
    /\ UNCHANGED onOpen

\* A frame is altered in flight: its bytes are changed, or a sealed frame is cut
\* down to fewer bytes than a nonce.  The server alters or makes up at most
\* MaxTamper frames in all.
Tamper(q) ==
    /\ tampered + injected < MaxTamper
    /\ net[q] # <<>>
    /\ Head(net[q]).t \in PakeTypes \cup SealedTypes
    /\ Head(net[q]).ok
    /\ \/ net' = [net EXCEPT ![q][1].ok = FALSE]
       \/ /\ Head(net[q]).t \in SealedTypes
          /\ net' = [net EXCEPT ![q][1].ok = FALSE, ![q][1].short = TRUE]
    /\ tampered' = tampered + 1
    /\ UNCHANGED <<key, ws, wsCode, pc, sent, ret, rc, lc, cb, gatherVars, jsVars,
                   pcVars, impl, pass, srvClosed, injected, ghostVars, slot>>
    /\ UNCHANGED <<closedWith, gotEnd, callVars, iceVars>>
    /\ UNCHANGED dcVars
    /\ UNCHANGED hostVars
    /\ UNCHANGED inDefault
    /\ UNCHANGED onOpen

\* A frame of the server's own making is delivered to q: text that is not
\* base64url, so neither a PAKE message nor a sealed frame.
Inject(q) ==
    /\ tampered + injected < MaxTamper
    /\ ws[q] = "open" /\ ~HasClose(q)
    /\ slot = "paired"
    /\ net' = [net EXCEPT ![q] = Append(@, Frame("junk", NoKey))]
    /\ injected' = injected + 1
    /\ UNCHANGED <<key, ws, wsCode, pc, sent, ret, rc, lc, cb, gatherVars, jsVars,
                   pcVars, impl, pass, srvClosed, tampered, ghostVars, slot>>
    /\ UNCHANGED <<closedWith, gotEnd, callVars, iceVars>>
    /\ UNCHANGED dcVars
    /\ UNCHANGED hostVars
    /\ UNCHANGED inDefault
    /\ UNCHANGED onOpen

\* handleLocalCandidates, lines 244-246, when callbacks run concurrently: a nil
\* callback finds localCandidate open in its select and enters the default
\* branch.
GoNilSelect(p) ==
    /\ impl[p] = "go" /\ cb[p] /\ gath[p] = "run"
    /\ ~lc[p]
    /\ inDefault[p] + nnil[p] < MaxRace
    /\ inDefault' = [inDefault EXCEPT ![p] = @ + 1]
    /\ UNCHANGED <<impl, pass, pc, key, ws, wsCode, net, sent, ret, nfail, rc, lc, cb,
                   gath, ncand, nnil, pconn, rdesc, added, p2, cont, pend, openFail,
                   opened, slot, srvClosed, tampered, injected, closedWith, gotEnd,
                   side, ndial, iceState, connType, hostVars>>
    /\ UNCHANGED dcVars
    /\ UNCHANGED onOpen

PanicClose == <<"panic: close of closed channel", 0>>

\* handleLocalCandidates, lines 247-252: the default branch writes the sentinel
\* and closes localCandidate; close of a closed channel panics.
GoNilDefault(p) ==
    /\ impl[p] = "go" /\ inDefault[p] > 0
    /\ pc[p] # "panicked"
    /\ inDefault' = [inDefault EXCEPT ![p] = @ - 1]
    /\ nnil' = [nnil EXCEPT ![p] = @ + 1]
    /\ sent' = Log(sent, p, "end")
    /\ IF lc[p]
       THEN /\ ret' = [ret EXCEPT ![p] = PanicClose]
            /\ pc' = [pc EXCEPT ![p] = "panicked"]
            /\ ws' = [ws EXCEPT ![p] = "closed"]
            /\ net' = IF ws[p] = "open"
                      THEN CloseNet(Write(net, p, Frame("end", key[p])), p,
                                    StatusNormalClosure)
                      ELSE net
            /\ rc' = [rc EXCEPT ![p] = "off"]
            /\ gath' = [gath EXCEPT ![p] = "idle"]
            /\ UNCHANGED lc
       ELSE /\ net' = Write(net, p, Frame("end", key[p]))
            /\ lc' = [lc EXCEPT ![p] = TRUE]
            /\ UNCHANGED <<ret, pc, ws, rc, gath>>
    /\ UNCHANGED <<impl, pass, key, wsCode, nfail, cb, ncand, pconn, rdesc, added, p2,
                   cont, pend, openFail, opened, slot, srvClosed, tampered, injected,
                   closedWith, gotEnd, side, ndial, iceState, connType, hostVars>>
    /\ UNCHANGED dcVars
    /\ UNCHANGED onOpen

\* The server delivers a PAKE message of its own making to q, a valid message of
\* a PAKE run that is not the counterpart's.
Forge(q) ==
    /\ forged < MaxForge
    /\ ws[q] = "open" /\ ~HasClose(q)
    /\ slot = "paired"
    /\ forged' = forged + 1
    /\ net' = [net EXCEPT ![q] = Append(@, [Frame("pakeB", NoKey) EXCEPT !.ok = FALSE])]
    /\ UNCHANGED <<impl, pass, pc, key, ws, wsCode, sent, ret, nfail, rc, lc, cb, gath,
                   ncand, nnil, pconn, rdesc, added, p2, cont, pend, openFail, opened,
                   slot, srvClosed, tampered, injected, closedWith, gotEnd, side, ndial,
                   iceState, connType, binUsed>>
    /\ UNCHANGED dcVars
    /\ UNCHANGED inDefault
    /\ UNCHANGED onOpen

\* The server delivers the frame that is next for a Go peer as a binary message,
\* its bytes unchanged.
Binary(q) ==
    /\ impl[q] = "go"
    /\ tampered + injected < MaxTamper
    /\ net[q] # <<>>
    /\ Head(net[q]).t \in PakeTypes \cup SealedTypes
    /\ ~Head(net[q]).bin
    /\ net' = [net EXCEPT ![q][1].bin = TRUE]
    /\ tampered' = tampered + 1
    /\ UNCHANGED <<impl, pass, pc, key, ws, wsCode, sent, ret, nfail, rc, lc, cb, gath,
                   ncand, nnil, pconn, rdesc, added, p2, cont, pend, openFail, opened,
                   slot, srvClosed, injected, closedWith, gotEnd, side, ndial,
                   iceState, connType, hostVars>>
    /\ UNCHANGED dcVars
    /\ UNCHANGED inDefault
    /\ UNCHANGED onOpen

Handshake ==
    \/ \E p \in P : GoConnectOK(p)
    \/ \E p \in P : GoConnectFail(p)
    \/ \E p \in P : GoDial(p)
    \/ \E p \in P : GoFinishNewReadA(p)
    \/ \E p \in P : GoFinishNewWriteOffer(p)
    \/ \E p \in P : GoFinishNewReadAnswer(p)
    \/ \E p \in P : GoFinishJoinReadB(p)
    \/ \E p \in P : GoFinishJoinReadOffer(p)
    \/ \E p \in P : GoDialTimeout(p)
    \/ \E p \in P : GoHandleRemoteCandidates(p)
    \/ \E p \in P : GoReadShort(p)
    \/ \E p \in P : GoHandleLocalCandidate(p)
    \/ \E p \in P : GoHandleLocalNil(p)
    \/ \E p \in P : JSDial(p)
    \/ \E p \in P : JSOnError(p)
    \/ \E p \in P : JSOnClose(p)
    \/ \E p \in P : JSOnInit(p)
    \/ \E p \in P : JSOnPake(p)
    \/ \E p \in P : JSOnDescription(p)
    \/ \E p \in P : JSOnCandidate(p)
    \/ \E p \in P : JSOnUnexpected(p)
    \/ \E p \in P : JSFinish(p)
    \/ \E p \in P : JSOfferCreated(p)
    \/ \E p \in P : JSRemoteSet(p)
    \/ \E p \in P : JSAnswerCreated(p)
    \/ \E p \in P : JSOnIceCandidate(p)
    \/ \E p \in P : JSOnIceNil(p)
    \/ SlotTimeout
    \/ \E p \in P : Exit(p)
    \/ \E q \in P : Tamper(q)
    \/ \E q \in P : Inject(q)

\* DialDataChannel, lines 302-307: the data channel opens once the peer connection
\* has a remote description and a candidate pair; the callback detaches the
\* channel and sends the result on the unbuffered channel "opened".
DcOnOpen(p) ==
    /\ impl[p] = "go" /\ onOpen[p] = "idle"
    /\ ndial[p] > 0
    /\ rdesc[p] # "" /\ HasPair(p)
    /\ onOpen' = [onOpen EXCEPT ![p] = "sending"]
    /\ UNCHANGED <<impl, pass, pc, key, ws, wsCode, net, sent, ret, nfail, rc, lc, cb,
                   gath, ncand, nnil, pconn, rdesc, added, p2, cont, pend, openFail,
                   opened, slot, srvClosed, tampered, injected, closedWith, gotEnd,
                   side, ndial, iceState, connType, inDefault, hostVars>>
    /\ UNCHANGED dcVars

\* DialDataChannel, lines 323-332: the select receives from "opened"; a detach
\* error is returned as it is, else the socket is closed and the call returns.
DdcOpened(p, ok) ==
    /\ TimerArmed(p) /\ onOpen[p] = "sending"
    /\ onOpen' = [onOpen EXCEPT ![p] = "done"]
    /\ pc' = [pc EXCEPT ![p] = "returned"]
    /\ IF ok
       THEN /\ ret' = [ret EXCEPT ![p] = Nil]
            /\ ws' = WsClose(p)
            /\ wsCode' = [wsCode EXCEPT ![p] =
                             IF ws[p] = "open" THEN StatusNormalClosure ELSE @]
            /\ net' = IF ws[p] = "open" THEN CloseNet(net, p, StatusNormalClosure) ELSE net
            /\ slot' = "closed"
       ELSE /\ ret' = [ret EXCEPT ![p] = ErrOther]
            /\ UNCHANGED <<ws, wsCode, net, slot>>
    /\ UNCHANGED <<impl, pass, key, sent, nfail, rc, lc, cb, gath, ncand, nnil, pconn,
                   rdesc, added, p2, cont, pend, openFail, opened, srvClosed, tampered,
                   injected, closedWith, gotEnd, side, ndial, iceState, connType,
                   inDefault, hostVars>>
    /\ UNCHANGED dcVars

\* The handshake with both Go calls being DialDataChannel.
DdcNext ==
    \/ Handshake
    \/ \E p \in P : DcOnOpen(p)
    \/ \E p \in P : \E ok \in BOOLEAN : DdcOpened(p, ok)

\* The handshake with both Go calls being Dial.
Next ==
    \/ Handshake
    \/ \E p \in P : GoDialDone(p)

(***************************************************************************)
(* DataChannel: the blocking Write over the buffered amount.               *)
(***************************************************************************)
\* The lengths of the data handed to Write and the levels the buffered amount
\* falls to when the transport has sent data.
WriteLens == {1, BufferedAmountLowThreshold + 1}
DrainLevels == {0, BufferedAmountLowThreshold}

\* A DataChannel that DialDataChannel has returned, with some data buffered.
DcInit ==
    /\ InitHandshake
    /\ impl = [p \in P |-> "go"]
    /\ pass = [p \in P |-> 1]
    /\ buffered \in {0, BufferedAmountLowThreshold, BufferedAmountLowThreshold + 1}
    /\ wpc = [w \in Writers |-> "idle"]
    /\ nwrites = [w \in Writers |-> 0]
    /\ seen = [w \in Writers |-> 0]
    /\ flushL = 0
    /\ lowPending = 0
    /\ closing = "idle"
    /\ attempts = <<>>
    /\ failed = {}
    /\ cerr = None

\* Write: c.flushc.L.Lock(), also when Wait returns after a Signal.
DcLock(w) ==
    /\ wpc[w] \in {"idle", "woken"}
    /\ wpc[w] = "idle" => nwrites[w] < MaxWrites
    /\ flushL = 0
    /\ flushL' = w
    /\ wpc' = [wpc EXCEPT ![w] = "locked"]
    /\ UNCHANGED <<buffered, nwrites, seen, lowPending, hsVars>>
    /\ UNCHANGED closeVars

\* Write: the test of the loop; Wait gives the lock up and blocks, the exit of
\* the loop unlocks.
DcTest(w) ==
    /\ wpc[w] = "locked" /\ flushL = w
    /\ seen' = [seen EXCEPT ![w] = buffered]
    /\ wpc' = [wpc EXCEPT ![w] =
                  IF buffered > BufferedAmountLowThreshold THEN "waiting" ELSE "write"]
    /\ flushL' = 0
    /\ UNCHANGED <<buffered, nwrites, lowPending, hsVars>>
    /\ UNCHANGED closeVars

\* Write: c.rwc.Write(p) adds the data to the channel's buffer.
DcWrite(w, len) ==
    /\ wpc[w] = "write" /\ len \in WriteLens
    /\ buffered' = buffered + len
    /\ nwrites' = [nwrites EXCEPT ![w] = @ + 1]
    /\ wpc' = [wpc EXCEPT ![w] = "idle"]
    /\ UNCHANGED <<seen, flushL, lowPending, hsVars>>
    /\ UNCHANGED closeVars

\* The transport sends buffered data; the channel calls the OnBufferedAmountLow
\* callback when the amount falls from above the threshold to it or below.
DcDrain(level) ==
    /\ level \in DrainLevels /\ level < buffered
    /\ buffered' = level
    /\ lowPending' = IF buffered > BufferedAmountLowThreshold
                        /\ level <= BufferedAmountLowThreshold
                     THEN lowPending + 1 ELSE lowPending
    /\ UNCHANGED <<wpc, nwrites, seen, flushL, hsVars>>
    /\ UNCHANGED closeVars

\* flushed: Lock, Signal, Unlock.  Signal wakes one of the goroutines that wait,
\* if there is one.
DcFlushed ==
    /\ lowPending > 0 /\ flushL = 0
    /\ lowPending' = lowPending - 1
    /\ IF \E w \in Writers : wpc[w] = "waiting"
       THEN \E w \in Writers :
               /\ wpc[w] = "waiting"
               /\ wpc' = [wpc EXCEPT ![w] = "woken"]
       ELSE UNCHANGED wpc
    /\ UNCHANGED <<buffered, nwrites, seen, flushL, hsVars>>
    /\ UNCHANGED closeVars

\* DataChannel.Close, lines 62-64: the deferred calls run last in, first out.
CloseOrder_rev == <<"pc", "dc", "rwc">>

CloseOrder == <<"rwc", "dc", "pc">>

\* The error the Close of closer x returns when it fails.
ErrClose(x) == <<"error", x>>

\* DataChannel.Close is called.
DcClose ==
    /\ closing = "idle"
    /\ closing' = "wait"
    /\ UNCHANGED <<attempts, failed, cerr>>
    /\ UNCHANGED <<buffered, wpc, nwrites, seen, flushL, lowPending, hsVars>>

\* Close, lines 52-56 and 65: the loop ends when BufferedAmount() is 0, and
\* "return nil" sets the result before the deferred calls run.
DcCloseDrained ==
    /\ closing = "wait"
    /\ buffered = 0
    /\ closing' = "defer"
    /\ cerr' = Nil
    /\ UNCHANGED <<attempts, failed>>
    /\ UNCHANGED <<buffered, wpc, nwrites, seen, flushL, lowPending, hsVars>>

\* Close, lines 57-64: tryclose of the next closer; a failure becomes the result.
DcTryClose(ok) ==
    /\ closing = "defer"
    /\ LET x == CloseOrder[Len(attempts) + 1]
       IN  /\ attempts' = Append(attempts, x)
           /\ failed' = IF ok THEN failed ELSE failed \cup {x}
           /\ cerr' = IF ok THEN cerr ELSE ErrClose(x)
           /\ closing' = IF Len(attempts) + 1 = Len(CloseOrder) THEN "done" ELSE "defer"
    /\ UNCHANGED <<buffered, wpc, nwrites, seen, flushL, lowPending, hsVars>>

DcNext ==
    \/ \E w \in Writers : DcLock(w)
    \/ \E w \in Writers : DcTest(w)
    \/ \E w \in Writers : \E len \in WriteLens : DcWrite(w, len)
    \/ \E level \in DrainLevels : DcDrain(level)
    \/ DcFlushed

(***************************************************************************)
(* Helpers for the properties.                                             *)
(***************************************************************************)
Sealed(e) == e[1] \in SealedTypes
SentTypes(p) == {sent[p][i][1] : i \in 1..Len(sent[p])}
IsError(r) == r # None /\ r # Nil
HonestServer == tampered = 0 /\ injected = 0 /\ \A p \in P : srvClosed[p] = 0 /\ pc[p] # "failed"

\* Each peer runs to the end of one call of Dial.
OneCallEach == \A p \in P : pc[p] # "gone" /\ ndial[p] <= 1
Finished(p) == pc[p] \in {"returned", "failed", "error"}

(***************************************************************************)
(* C1: within one peer, of either role and either implementation, every    *)
(* sealed frame it has written (handshake task or candidate callback) was  *)
(* written when its session key was already derived, and it has handed a   *)
(* received frame to open only with its key derived.                       *)
(***************************************************************************)
C1_KeyBeforeSealedFrames ==
    \A p \in P :
        /\ \A i \in 1..Len(sent[p]) : Sealed(sent[p][i]) => sent[p][i][2]
        /\ opened[p] => key[p] # NoKey

\* A peer has opened a frame and its candidate callback has written a frame.
C1_Witness ==
    \E p \in P : opened[p] /\ "cand" \in SentTypes(p) /\ "cand" \in SentTypes(Other(p))

C4_FailedOpenByeAndClose ==
    \A p \in P :
        (openFail[p] # "" /\ injected = 0) =>
            (wsCode[p] = CloseBadKey /\ "bye" \in SentTypes(p))

(***************************************************************************)
(* C5: a peer at which the open of a sealed frame has failed, the frame    *)
(* being one its counterpart sent, surfaces BadKey: its call never returns *)
(* nil, and once it is over, it has returned ErrBadKey.                    *)
(***************************************************************************)
C5_FailedOpenSurfacesBadKey ==
    \A p \in P :
        (openFail[p] # "" /\ injected = 0) =>
            /\ ret[p] # Nil
            /\ Finished(p) => ret[p] = ErrBadKey

(***************************************************************************)
(* C6, as the specification states it: whenever a peer has written a       *)
(* sealed frame, the other peer has derived its session key.               *)
(***************************************************************************)
C6_SealedOnlyWhenBothHaveKey ==
    \A p \in P :
        (\E i \in 1..Len(sent[p]) : Sealed(sent[p][i])) => key[Other(p)] # NoKey

(***************************************************************************)
(* C6, as the code has it: a sealed frame is written only when its writer  *)
(* has derived its key; the joiner writes one only when both peers have    *)
(* their key; the initiator writes one only after it has written msgB,     *)
(* from which the joiner derives its key, which the joiner may not have    *)
(* read yet.                                                               *)
(***************************************************************************)
C6_SealedAfterKeyMaterialSent ==
    \A p \in P : \A i \in 1..Len(sent[p]) :
        Sealed(sent[p][i]) =>
            /\ sent[p][i][2]
            /\ p = "B" => key["A"] # NoKey
            /\ p = "A" => \E j \in 1..(i - 1) : sent[p][j][1] = "pakeB"

\* The initiator has written its sealed offer and the joiner has no key yet.
C6_Witness ==
    /\ "offer" \in SentTypes("A") /\ key["B"] = NoKey
    /\ sent["B"] # <<>>

(***************************************************************************)
(* C7: a Go initiator whose Dial waits for the first PAKE frame eventually *)
(* returns ErrTimedOut, unless a frame or a close arrives for it.          *)
(***************************************************************************)
C7_NoCounterpartTimesOut ==
    (impl["A"] = "go" /\ pc["A"] = "n_readA")
        ~> (ret["A"] = ErrTimedOut \/ net["A"] # <<>>)

(***************************************************************************)
(* C8: when a handshake has surfaced an error, the rendezvous socket and   *)
(* the peer connection of that peer are closed.                            *)
(***************************************************************************)
C8_ErrorClosesSocketAndPeerConnection ==
    \A p \in P :
        (IsError(ret[p]) /\ pc[p] # "failed") =>
            (ws[p] # "open" /\ pconn[p] # "open")

(***************************************************************************)
(* C9: a failed New / Join returns ErrBadVersion on close 4003,            *)
(* ErrNoSuchSlot on 4000, ErrTimedOut on 4001 and any other error as it    *)
(* is; no Wormhole is returned; up to the return of New / Join the client  *)
(* has written no frame.                                                   *)
(***************************************************************************)
C9_ConnectErrors ==
    \A p \in P : impl[p] = "go" =>
        /\ pc[p] \in {"idle", "connected", "failed"} => sent[p] = <<>>
        /\ pc[p] = "failed" =>
              /\ key[p] = NoKey /\ pconn[p] = "none"
              /\ srvClosed[p] = CloseWrongProto => ret[p] = ErrBadVersion
              /\ srvClosed[p] = CloseNoSuchSlot => ret[p] = ErrNoSuchSlot
              /\ srvClosed[p] = CloseSlotTimedOut => ret[p] = ErrTimedOut
              /\ srvClosed[p] \notin {0, CloseWrongProto, CloseNoSuchSlot, CloseSlotTimedOut} =>
                    ret[p] = CloseError(srvClosed[p])
              /\ srvClosed[p] = 0 => ret[p] = ErrOther

\* A Join was refused with 4000 and a New with 4003.
C9_Witness ==
    /\ pc["B"] = "failed" /\ ret["B"] = ErrNoSuchSlot
    /\ pc["A"] = "failed" /\ ret["A"] = ErrBadVersion

(***************************************************************************)
(* C10: an initiator whose socket the server has closed with               *)
(* CloseSlotTimedOut, before or after New has returned, surfaces TimedOut  *)
(* once its call is over.                                                  *)
(***************************************************************************)
C10_SlotTimeoutSurfacesTimedOut ==
    (srvClosed["A"] = CloseSlotTimedOut /\ Finished("A")) => ret["A"] = ErrTimedOut

(***************************************************************************)
(* C11: a peer that has received the close ClosePeerHungUp before the      *)
(* session descriptions were exchanged (the initiator has not applied the  *)
(* answer, the joiner has not sent it) has surfaced an error: its call has *)
(* returned one, or its promise is rejected.                               *)
(***************************************************************************)
Completed(p) == IF p = "A" THEN rdesc[p] = "answer" ELSE "answer" \in SentTypes(p)

C11_PeerHungUpSurfaced ==
    \A p \in P :
        (closedWith[p] = ClosePeerHungUp /\ ~Completed(p)) => IsError(ret[p])

(***************************************************************************)
(* C12: a peer whose gatherer has reported completion while the socket was *)
(* open has written the sealed empty candidate.                            *)
(***************************************************************************)
C12_CompletionSendsSentinel ==
    \A p \in P :
        (nnil[p] > 0 /\ ndial[p] <= 1 /\ key[p] # NoKey /\ ws[p] = "open")
            => "end" \in SentTypes(p)

(***************************************************************************)
(* C13: a peer that has opened the empty candidate has not handed it to    *)
(* the peer connection as a candidate and no longer receives remote        *)
(* candidates.                                                             *)
(***************************************************************************)
Handed(p) == added[p] \o pend[p]

Receiving(p) ==
    IF impl[p] = "go"
    THEN rc[p] = "run"
    ELSE pc[p] = "wait_for_candidates" /\ ws[p] = "open"

C13_SentinelEndsReception ==
    \A p \in P :
        gotEnd[p] =>
            /\ \A i \in 1..Len(Handed(p)) : Handed(p)[i][1] # "end"
            /\ ~Receiving(p)

(***************************************************************************)
(* C14: a peer whose handshake succeeded and that has closed its socket    *)
(* itself (not on a bad key and not on a failed connection) closed it when *)
(* its peer connection had reported "connected", with the code of the      *)
(* candidate type of the selected pair.                                    *)
(***************************************************************************)
C14_SuccessCloseTellsType ==
    \A p \in P :
        (ret[p] = Nil /\ wsCode[p] \notin {0, CloseBadKey, CloseWebRTCFailed})
            => (iceState[p] = "connected" /\ wsCode[p] = SuccessCode(connType[p]))

(***************************************************************************)
(* C15: a second call of Dial on a Wormhole panics, for the initiator and  *)
(* for the joiner, and writes nothing to the socket.                       *)
(***************************************************************************)
C15_SecondDialPanics ==
    \A p \in P : ndial[p] >= 2 => (pc[p] = "panicked" /\ ret[p] = PanicDialTwice)

(***************************************************************************)
(* C16: whatever the interleaving of the handshake task and the gatherer,  *)
(* the initiator writes its offer before any of its local candidates and   *)
(* before the empty candidate.                                             *)
(***************************************************************************)
C16_OfferBeforeCandidates ==
    \A i \in 1..Len(sent["A"]) :
        sent["A"][i][1] \in {"cand", "end"}
            => \E j \in 1..(i - 1) : sent["A"][j][1] = "offer"

\* The initiator has written a candidate and the joiner has opened a frame.
C16_Witness == "cand" \in SentTypes("A") /\ opened["B"]

(***************************************************************************)
(* C17: the candidates that reach the joiner after the offer are neither   *)
(* rejected nor dropped: with a server that only forwards, each candidate  *)
(* the initiator wrote is in flight to the joiner, waits for the remote    *)
(* description, or was added; candidates are added only once the remote    *)
(* description is set, and in the order of their arrival.                  *)
(***************************************************************************)
Cands(seq) == SelectSeq(seq, LAMBDA e : e[1] = "cand")
InFlight(p) == SelectSeq(net[p], LAMBDA f : f.t = "cand")
Listening(p) ==
    /\ ws[p] = "open"
    /\ IF impl[p] = "go" THEN pc[p] \notin {"returned", "panicked", "gone"}
                          ELSE pc[p] \notin {"error", "failed", "gone"}

C19_OpenNeverPanics == \A p \in P : ret[p] # PanicSlice

(***************************************************************************)
(* C20: a Write hands its data over only after it has observed the         *)
(* buffered amount at or below the threshold, and no Write stays blocked   *)
(* once the buffered amount is at or below the threshold and every due     *)
(* call of the low-water callback has run, however many Writes wait.       *)
(***************************************************************************)
C20_BlockedWritesWoken ==
    \A w \in Writers :
        /\ wpc[w] = "write" => seen[w] <= BufferedAmountLowThreshold
        /\ ~(/\ wpc[w] = "waiting"
             /\ buffered <= BufferedAmountLowThreshold
             /\ lowPending = 0)

C22_KeySetOnce ==
    [][\A p \in P : key[p] # NoKey => key'[p] = key[p]]_vars

(***************************************************************************)
(* C23: no peer uses the content of a binary frame as a PAKE message or as *)
(* a sealed frame.                                                         *)
(***************************************************************************)
C23_BinaryFramesRejected == \A p \in P : ~binUsed[p]

\* Dial returned ErrTimedOut because its 30-second timer fired.
TimedOut(p) == impl[p] = "go" /\ pc[p] = "returned" /\ ret[p] = ErrTimedOut

\* The frames of the local-candidate emitter on their way to q.
Emitted(q) == SelectSeq(net[q], LAMBDA f : f.t \in {"cand", "end"})

(***************************************************************************)
(* C24: when the 30-second timer of Dial has fired the socket is closed    *)
(* and ErrTimedOut returned; from then on the task receiving candidates is  *)
(* never blocked and its next turn ends it, and nothing the local-         *)
(* candidate emitter writes is put on the way to the counterpart.          *)
(***************************************************************************)
C24_TimeoutEndsSession ==
    /\ [](\A p \in P : TimedOut(p) =>
             /\ ws[p] = "closed"
             /\ rc[p] = "run" => ENABLED GoHandleRemoteCandidates(p))
    /\ [][\A p \in P : TimedOut(p) =>
             /\ Len(Emitted(Other(p)))' <= Len(Emitted(Other(p)))
             /\ GoHandleRemoteCandidates(p) => rc'[p] = "done"]_vars


C24_Witness ==
    \E p \in P :
        /\ TimedOut(p) /\ rc[p] = "done"
        /\ ncand[p] > 0 /\ "cand" \notin SentTypes(p)

\* The sentinels p wrote in this run of the handshake.
Sentinels(p) == SelectSeq(sent[p], LAMBDA e : e[1] = "end")

(***************************************************************************)
(* C25: however often and however concurrently the gatherer reports nil, a *)
(* Go peer writes the sentinel at most once and closes localCandidate at   *)
(* most once.                                                              *)
(***************************************************************************)
C25_SentinelAtMostOnce ==
    \A p \in P : impl[p] = "go" => Len(Sentinels(p)) <= 1 /\ ret[p] # PanicClose

(***************************************************************************)
(* C26: DataChannel.Close closes nothing while the buffered amount is not  *)
(* zero; then it calls Close on the detached stream, the data channel and  *)
(* the peer connection, in this order and all three whatever fails, and    *)
(* returns nil when none failed and else the error of the last that failed.*)
(***************************************************************************)
C26_CloseOrderAndResult ==
    /\ [](closing \in {"idle", "wait"} => attempts = <<>>)
    /\ [][(closing = "wait" /\ buffered # 0) => closing' = "wait"]_vars
    /\ [](closing = "done" =>
            /\ attempts = <<"rwc", "dc", "pc">>
            /\ cerr = IF "pc" \in failed THEN ErrClose("pc")
                      ELSE IF "dc" \in failed THEN ErrClose("dc")
                      ELSE IF "rwc" \in failed THEN ErrClose("rwc")
                      ELSE Nil)

C26_Witness ==
    /\ closing = "done"
    /\ failed = {"rwc", "dc"}
    /\ \E w \in Writers : nwrites[w] > 0

\* The peer waits for the counterpart's session description.
AwaitsDescription(p) ==
    pc[p] \in {"j_readOffer", "n_readAns", "wait_for_webtc_offer", "wait_for_webtc_answer"}

\* The description awaited in the peer's state.
Want(p) == IF pc[p] \in {"j_readOffer", "wait_for_webtc_offer"} THEN "offer" ELSE "answer"

(***************************************************************************)
(* C27: a peer waiting for the offer or the answer that takes a frame      *)
(* which opens under its key and holds something else ends with an error   *)
(* and does not set its remote description.                                *)
(***************************************************************************)
C27_UnexpectedPayloadRejected ==
    [][\A p \in P :
          (/\ AwaitsDescription(p) /\ Readable(p)
           /\ OpenOK(key[p], Head(net[p]))
           /\ Head(net[p]).t # Want(p)
           /\ net'[p] = Tail(net[p]))
              => (IsError(ret'[p]) /\ rdesc'[p] = rdesc[p])]_vars

(***************************************************************************)
(* C28: the promise of finish() of a JS peer resolves only when the peer   *)
(* has opened a session description of the counterpart under its key; it   *)
(* does not resolve once fail() has been called, and no step that takes a  *)
(* frame whose open fails resolves it.                                     *)
(***************************************************************************)
C28_ResolvedOnlyAfterDescription ==
    /\ [](\A p \in P : (impl[p] = "js" /\ ret[p] = Nil) => rdesc[p] # "")
    /\ [][\A p \in P :
             (impl[p] = "js" /\ ret[p] # Nil /\ ret'[p] = Nil) =>
                 /\ nfail[p] = 0
                 /\ ~(/\ Readable(p) /\ net'[p] = Tail(net[p])
                      /\ ~OpenOK(key[p], Head(net[p])))]_vars

C28_Witness ==
    \E p \in P :
        /\ impl[p] = "js" /\ nfail[p] > 0 /\ IsError(ret[p])
        /\ cont[p] = "done" /\ rdesc[p] = "offer"

(***************************************************************************)
(* C29: whatever the interleaving of the handshake task and the gatherer,  *)
(* the joiner writes its answer before any of its local candidates and     *)
(* before the empty candidate, so the first sealed frame the initiator     *)
(* gets from it is the answer.                                             *)
(***************************************************************************)
C29_AnswerBeforeCandidates ==
    \A i \in 1..Len(sent["B"]) :
        sent["B"][i][1] \in {"cand", "end"}
            => \E j \in 1..(i - 1) : sent["B"][j][1] = "answer"

\* The joiner has written a candidate and the initiator has its answer.
C29_Witness == "cand" \in SentTypes("B") /\ rdesc["A"] = "answer"

(***************************************************************************)
(* C30: once a JS peer is in state "error" its state does not change and   *)
(* it sends no frame, whatever finish() and the pending continuations do,   *)
(* until the page goes away.                                               *)
(***************************************************************************)
C30_ErrorStateAbsorbing ==
    [][\A p \in P :
          (impl[p] = "js" /\ pc[p] = "error")
              => (pc'[p] \in {"error", "gone"} /\ sent'[p] = sent[p])]_vars

(***************************************************************************)
(* C31: the OnOpen callback of DialDataChannel is never left sending on    *)
(* "opened" with nobody to receive: not after the call has returned on the *)
(* timer or with an error.                                                 *)
(***************************************************************************)
C31_OnOpenNeverBlocked ==
    \A p \in P : ~(onOpen[p] = "sending" /\ pc[p] \in {"returned", "panicked"})

(***************************************************************************)
(* C32: two Go peers with the same passphrase, a server that relays every  *)
(* frame in order and closes nothing on its own, gatherers that report     *)
(* completion and no timer firing: both Dial calls end up returned with    *)
(* nil and both sockets closed, whichever peer closes first.               *)
(***************************************************************************)
C32_HappyPathTerminates ==
    <>[](\A p \in P : pc[p] = "returned" /\ ret[p] = Nil /\ ws[p] = "closed")

\* Both calls have returned nil after candidates went both ways.
C32_Witness ==
    \A p \in P :
        /\ pc[p] = "returned" /\ ret[p] = Nil /\ ws[p] = "closed"
        /\ "cand" \in SentTypes(p) /\ added[p] # <<>>

(***************************************************************************)
(* Specifications.  The peers' own steps are fair: a handler whose event   *)
(* is there runs and a call that can proceed does.  When a caller starts a *)
(* call, and what the server does, is not.                                 *)
(***************************************************************************)
PeerStep(p) ==
    \/ GoFinishNewReadA(p) \/ GoFinishNewWriteOffer(p) \/ GoFinishNewReadAnswer(p)
    \/ GoFinishJoinReadB(p) \/ GoFinishJoinReadOffer(p)
    \/ GoDialDone(p) \/ GoDialTimeout(p)
    \/ GoHandleRemoteCandidates(p) \/ GoReadShort(p)
    \/ GoHandleLocalCandidate(p) \/ GoHandleLocalNil(p)
    \/ JSOnClose(p) \/ JSOnInit(p) \/ JSOnPake(p) \/ JSOnDescription(p)
    \/ JSOnCandidate(p) \/ JSOnUnexpected(p)
    \/ JSOfferCreated(p) \/ JSRemoteSet(p) \/ JSAnswerCreated(p)
    \/ JSOnIceCandidate(p) \/ JSOnIceNil(p)

Spec == Init /\ [][Next]_vars

FairSpec == Spec /\ \A p \in P : WF_vars(PeerStep(p))

\* The handshake together with the peer connection's ICE state and the page's
\* call of close().
IceNext ==
    \/ Next
    \/ \E p \in P : \E st \in {"connected", "failed"} : IceReport(p, st)
    \/ \E p \in P : \E t \in IceTypes : JSClose(p, t)

IceSpec == Init /\ [][IceNext]_vars

\* The handshake with the gatherer's callbacks running concurrently.
RaceNext ==
    \/ Next
    \/ \E p \in P : GoNilSelect(p)
    \/ \E p \in P : GoNilDefault(p)

RaceSpec == Init /\ [][RaceNext]_vars

\* The handshake with a server that also sends PAKE messages of its own and
\* binary messages.
HostileNext ==
    \/ Next
    \/ \E q \in P : Forge(q)
    \/ \E q \in P : Binary(q)

HostileSpec == Init /\ [][HostileNext]_vars

\* The three tasks of a Go peer whose caller dials once: the handshake task
\* (New or Join, then Dial up to its select), the receive task and the
\* callbacks of the gatherer.
GoHandshakeTask(p) ==
    \/ GoConnectOK(p)
    \/ (ndial[p] = 0 /\ GoDial(p))
    \/ GoFinishNewReadA(p) \/ GoFinishNewWriteOffer(p) \/ GoFinishNewReadAnswer(p)
    \/ GoFinishJoinReadB(p) \/ GoFinishJoinReadOffer(p)
    \/ GoDialDone(p)

GoReceiveTask(p) == GoHandleRemoteCandidates(p)

GoEmitter(p) == GoHandleLocalCandidate(p) \/ GoHandleLocalNil(p)

\* Two Go peers with the same passphrase.
HappyInit ==
    /\ Init
    /\ impl = [p \in P |-> "go"]
    /\ pass["A"] = pass["B"]

\* The server relays every frame in order and closes no socket on its own, and
\* the timer of Dial does not fire.
HappyNext ==
    \/ \E p \in P : GoHandshakeTask(p)
    \/ \E p \in P : GoReceiveTask(p)
    \/ \E p \in P : GoEmitter(p)

\* Every task that can run does run, and the gatherers report.
HappySpec ==
    /\ HappyInit /\ [][HappyNext]_vars
    /\ \A p \in P : /\ WF_vars(GoHandshakeTask(p))
                    /\ WF_vars(GoReceiveTask(p))
                    /\ WF_vars(GoEmitter(p))

DdcSpec == Init /\ [][DdcNext]_vars

\* A DataChannel with its writers, the transport and the callback.
DcSpec == DcInit /\ [][DcNext]_vars

\* DataChannel.Close, called while one goroutine may still be in Write and the
\* transport drains the buffer.
CloseNext ==
    \/ DcClose
    \/ DcCloseDrained
    \/ \E ok \in BOOLEAN : DcTryClose(ok)
    \/ DcLock(1)
    \/ DcTest(1)
    \/ \E len \in WriteLens : DcWrite(1, len)
    \/ \E level \in DrainLevels : DcDrain(level)
    \/ DcFlushed

CloseSpec == DcInit /\ [][CloseNext]_vars

=============================================================================
